---- MODULE Spec2Model ----
(***************************************************************************)
(* mario: a plumber.  The model covers the rule evaluator handle_rules of  *)
(* mario/core.py, the match and action clause functions it dispatches to,  *)
(* and the ElasticDict that carries the message.                           *)
(*                                                                         *)
(* Strings of the program are sequences of one-character strings, so that  *)
(* formatting, searching and replacing are computed rather than assumed.   *)
(* Dictionary keys and the names of variables are TLA+ strings.            *)
(***************************************************************************)
EXTENDS Integers, Sequences, FiniteSets, TLC

VARIABLES
    msg,        \* the ElasticDict handed to handle_rules
    cache,      \* cache['type'] of handle_rules: resolved value -> mimetype
    rules,      \* the parsed rules, a sequence of [name, match_lines, action_lines]
    ri,         \* index of the rule the outer for loop is at
    li,         \* index of the next line of the block being evaluated
    pc,         \* position in handle_rules (or "dict" for a bare ElasticDict)
    outcome,    \* how handle_rules ended: "", "matched", "nomatch" or an exception
    trace,      \* history: every clause function call, in order, with its result
    rule_start, \* history: dict(msg) when the current rule's first line was reached
    before,     \* history: dict(msg) when the changelog was last empty
    asked       \* history: what the classifier was asked about, and its answers

vars == <<msg, cache, rules, ri, li, pc, outcome, trace, rule_start, before,
          asked>>

-----------------------------------------------------------------------------
(* Bounds *)

MaxRules == 2
MaxOps == 4
MaxPatterns == 2
MaxLines == 2

-----------------------------------------------------------------------------
(* Values *)

\* class Kind(Enum): a member is a value that is no str
KindNames == {"raw", "text", "url"}

Kind(name) == <<"Kind." \o name>>

KindValues == {Kind(n) : n \in KindNames}

\* Python's None, as it is returned by detect_mimetype
None == <<"None">>

\* str(Kind.x), what format() inserts for a Kind member
KindStr(v) ==
    CASE v = Kind("raw")  -> <<"K","i","n","d",".","r","a","w">>
      [] v = Kind("text") -> <<"K","i","n","d",".","t","e","x","t">>
      [] v = Kind("url")  -> <<"K","i","n","d",".","u","r","l">>

\* str(v), applied by format() to every value it inserts
Str(v) == IF v \in KindValues THEN KindStr(v) ELSE v

\* truth value of "if t:" for t a str or None
Truthy(t) == t # None /\ t # <<>>

-----------------------------------------------------------------------------
(* ElasticDict (mario/util.py) *)

\* ElasticDict(mapping): order lists the keys in dict order
ElasticDict(mapping, order) ==
    [data |-> mapping, order |-> order, changelog |-> <<>>, original |-> mapping]

\* d[key] = value, with every key updated
BadSetItem(d, key, value) ==
    [d EXCEPT !.data = (key :> value) @@ @,
              !.order = IF key \in DOMAIN d.data THEN @ ELSE Append(@, key),
              !.changelog = Append(@, [op |-> "update", key |-> key,
                                       prior |-> IF key \in DOMAIN d.data
                                                 THEN d.data[key] ELSE <<>>])]

\* d[key] = value, with an updated key moved behind the other keys
MovingSetItem(d, key, value) ==
    [d EXCEPT !.data = (key :> value) @@ @,
              !.order = Append(SelectSeq(@, LAMBDA k : k # key), key),
              !.changelog = Append(@, IF key \in DOMAIN d.data
                                      THEN [op |-> "update", key |-> key,
                                            prior |-> d.data[key]]
                                      ELSE [op |-> "insert", key |-> key,
                                            prior |-> <<>>])]

\* d[key] = value
SetItem(d, key, value) ==
    [d EXCEPT !.data = (key :> value) @@ @,
              !.order = IF key \in DOMAIN d.data THEN @ ELSE Append(@, key),
              !.changelog = Append(@, IF key \in DOMAIN d.data
                                      THEN [op |-> "update", key |-> key,
                                            prior |-> d.data[key]]
                                      ELSE [op |-> "insert", key |-> key,
                                            prior |-> <<>>])]

\* undo of one changelog entry
Undo(d, e) ==
    IF e.op = "insert"
    THEN [d EXCEPT !.data = [k \in (DOMAIN d.data) \ {e.key} |-> d.data[k]],
                   !.order = SelectSeq(@, LAMBDA k : k # e.key)]
    ELSE [d EXCEPT !.data = (e.key :> e.prior) @@ @]

RECURSIVE Reverse(_)
\* d.reverse(): undo the changelog, newest entry first, until it is empty
Reverse(d) ==
    IF d.changelog = <<>> THEN d
    ELSE LET n == Len(d.changelog)
         IN Reverse([Undo(d, d.changelog[n]) EXCEPT
                        !.changelog = SubSeq(d.changelog, 1, n - 1)])

\* d.update(...) with the groups numbered from 1
BadUpdate(d, values, i) ==
    LET Go[n \in 1..(Len(values) + 1)] ==
            IF n > Len(values) THEN d
            ELSE SetItem(Go[n + 1], "\\" \o ToString(n), values[n])
    IN Go[1]

RECURSIVE Update(_, _, _)
\* d.update({key(0): values[1], key(1): values[2], ...}) from index i on
Update(d, values, i) ==
    IF i > Len(values) THEN d
    ELSE Update(SetItem(d, "\\" \o ToString(i - 1), values[i]), values, i + 1)

-----------------------------------------------------------------------------
(* Expressions: a sequence of tokens, [t |-> "lit", s |-> c] for the        *)
(* character c and [t |-> "ref", s |-> name] for {name}.                    *)

Lit(c) == [t |-> "lit", s |-> c]
Ref(name) == [t |-> "ref", s |-> name]

\* names that \d* matches in full
DigitNames == {"0", "1", "2", "3"}

\* escape_match_group_references: {n} becomes {\n}
escape_match_group_references(action) ==
    [i \in 1..Len(action) |->
        IF action[i].t = "ref" /\ action[i].s \in DigitNames
        THEN Ref("\\" \o action[i].s) ELSE action[i]]

RECURSIVE Format(_, _, _)
\* arg.format(**msg) from token i on: the text, or the exception raised
Format(arg, d, i) ==
    IF i > Len(arg) THEN [exc |-> "", val |-> <<>>]
    ELSE LET tok == arg[i]
             rest == Format(arg, d, i + 1)
         IN IF tok.t = "lit"
            THEN [rest EXCEPT !.val = <<tok.s>> \o @]
            ELSE IF tok.s \in DigitNames
            THEN [exc |-> "IndexError", val |-> <<>>]
            ELSE IF tok.s \notin DOMAIN d
            THEN [exc |-> "KeyError", val |-> <<>>]
            ELSE IF rest.exc # "" THEN rest
            ELSE [rest EXCEPT !.val = Str(d[tok.s]) \o @]

\* get_var_references + strip('{}'): the names log_var_references looks up
VarNames(action) ==
    {action[i].s : i \in {j \in 1..Len(action) : action[j].t = "ref"}}

\* arg.strip('{}') of the text of an expression
StripBraces(arg) ==
    LET n == Len(arg)
        Text(i) == IF arg[i].t = "lit" THEN arg[i].s
                   ELSE (IF i = 1 THEN "" ELSE "{") \o arg[i].s
                        \o (IF i = n THEN "" ELSE "}")
        Join[i \in 0..n] == IF i = 0 THEN "" ELSE Join[i - 1] \o Text(i)
    IN Join[n]

-----------------------------------------------------------------------------
(* Regular expressions: a sequence of items, each a literal character, "."  *)
(* (any character) or "(.)" (a group capturing any one character).         *)

\* whether the pattern matches the text at position i
MatchAt(pattern, text, i) ==
    /\ i + Len(pattern) - 1 <= Len(text)
    /\ \A j \in 1..Len(pattern) :
          pattern[j] \in {".", "(.)"} \/ pattern[j] = text[i + j - 1]

\* re.search(pattern, text): the leftmost match and its groups()
Search(pattern, text) ==
    LET at == {i \in 1..(Len(text) + 1) : MatchAt(pattern, text, i)}
    IN IF at = {} THEN [found |-> FALSE, groups |-> <<>>]
       ELSE LET i == CHOOSE x \in at : \A y \in at : x <= y
                gi == SelectSeq([j \in 1..Len(pattern) |-> j],
                                LAMBDA j : pattern[j] = "(.)")
            IN [found |-> TRUE,
                groups |-> [n \in 1..Len(gi) |-> <<text[i + gi[n] - 1]>>]]

\* the for loop over the patterns without its return: the last match wins
BadFirstMatching(patterns, text) ==
    LET hit == {n \in 1..Len(patterns) : Search(patterns[n], text).found}
    IN IF hit = {} THEN 0 ELSE CHOOSE x \in hit : \A y \in hit : x >= y

\* the for loop over the patterns: index of the first one that matches
\* the text, or 0 when the loop runs to its end
FirstMatching(patterns, text) ==
    LET hit == {n \in 1..Len(patterns) : Search(patterns[n], text).found}
    IN IF hit = {} THEN 0 ELSE CHOOSE x \in hit : \A y \in hit : x <= y

\* pattern.split(',', 2)
Split(pattern) ==
    LET commas == {i \in 1..Len(pattern) : pattern[i] = ","}
        Least(S) == CHOOSE x \in S : \A y \in S : x <= y
        n == Len(pattern)
    IN IF commas = {} THEN <<pattern>>
       ELSE LET c1 == Least(commas)
                more == {i \in commas : i > c1}
            IN IF more = {}
               THEN <<SubSeq(pattern, 1, c1 - 1), SubSeq(pattern, c1 + 1, n)>>
               ELSE LET c2 == Least(more)
                    IN <<SubSeq(pattern, 1, c1 - 1),
                         SubSeq(pattern, c1 + 1, c2 - 1),
                         SubSeq(pattern, c2 + 1, n)>>

RECURSIVE Replace(_, _, _)
\* text.replace(old, new)
Replace(text, old, new) ==
    IF old = <<>>
    THEN IF text = <<>> THEN new
         ELSE new \o <<Head(text)>> \o Replace(Tail(text), old, new)
    ELSE IF Len(text) < Len(old) THEN text
    ELSE IF SubSeq(text, 1, Len(old)) = old
    THEN new \o Replace(SubSeq(text, Len(old) + 1, Len(text)), old, new)
    ELSE <<Head(text)>> \o Replace(Tail(text), old, new)

RECURSIVE Reduce(_, _, _)
\* reduce(split, patterns, tmp) from pattern i on: the text, or the
\* exception str.replace raises when it does not get old and new
Reduce(patterns, tmp, i) ==
    IF i > Len(patterns) THEN [exc |-> "", val |-> tmp]
    ELSE LET parts == Split(patterns[i])
         IN IF Len(parts) # 2 THEN [exc |-> "TypeError", val |-> <<>>]
            ELSE Reduce(patterns, Replace(tmp, parts[1], parts[2]), i + 1)

-----------------------------------------------------------------------------
(* Match clauses.  Each returns [res, msg, cache]; res is "True", "False"  *)
(* or the name of the exception the function lets escape.                 *)

Result(res, m, c) == [res |-> res, msg |-> m, cache |-> c]

Bool(b) == IF b THEN "True" ELSE "False"

kind_is_func(m, arguments, c) ==
    IF arguments[1] \notin KindNames \/ "kind" \notin DOMAIN m.data
    THEN Result("False", m, c)
    ELSE Result(Bool(m.data["kind"] = Kind(arguments[1])), m, c)

arg_is_func(m, arguments, c) ==
    LET arg == Format(arguments[1], m.data, 1)
        checks == arguments[2]
    IN IF arg.exc # "" THEN Result(arg.exc, m, c)
       ELSE Result(Bool(\E n \in 1..Len(checks) : checks[n] = arg.val), m, c)

\* arg_matches_func that also empties the capture variable after the last
\* group
ClearingMatches(m, arguments, c) ==
    LET arg == Format(arguments[1], m.data, 1)
        patterns == arguments[2]
    IN IF arg.exc # "" THEN Result(arg.exc, m, c)
       ELSE LET n == FirstMatching(patterns, arg.val)
            IN IF n = 0 THEN Result("False", m, c)
               ELSE Result("True",
                           Update(m, Append(Search(patterns[n], arg.val).groups,
                                            <<>>), 1), c)

arg_matches_func(m, arguments, c) ==
    LET arg == Format(arguments[1], m.data, 1)
        patterns == arguments[2]
    IN IF arg.exc # "" THEN Result(arg.exc, m, c)
       ELSE LET n == FirstMatching(patterns, arg.val)
            IN IF n = 0 THEN Result("False", m, c)
               ELSE Result("True",
                           Update(m, Search(patterns[n], arg.val).groups, 1), c)

arg_rewrite_func(m, arguments, c) ==
    LET arg == escape_match_group_references(arguments[1])
        tmp == Format(arg, m.data, 1)
        out == Reduce(arguments[2], tmp.val, 1)
    IN IF tmp.exc # "" THEN Result(tmp.exc, m, c)
       ELSE IF out.exc # "" THEN Result(out.exc, m, c)
       ELSE Result("True", SetItem(m, StripBraces(arg), out.val), c)

\* 'text/plain'
TextPlain == <<"t","e","x","t","/","p","l","a","i","n">>

\* raise SystemExit of mime_from_buffer, as an answer of the classifier
SystemExit == <<"SystemExit">>

\* detect_mimetype(kind, var): ext is what the external classifier answers
\* (mimetypes / Content-Type header for a url, magic for raw data)
detect_mimetype(kind, ext) ==
    IF kind = Kind("url") THEN ext
    ELSE IF kind = Kind("raw") THEN ext
    ELSE IF kind = Kind("text") THEN TextPlain
    ELSE None

arg_istype_func(m, arguments, c, ext) ==
    LET arg == Format(arguments[1], m.data, 1)
        patterns == arguments[2]
        t == IF arg.val \in DOMAIN c THEN c[arg.val]
             ELSE detect_mimetype(m.data["kind"], ext)
        c2 == (arg.val :> t) @@ c
        n == FirstMatching(patterns, t)
    IN IF arg.exc # "" THEN Result(arg.exc, m, c)
       ELSE IF t = SystemExit THEN Result("SystemExit", m, c)
       ELSE IF ~Truthy(t) THEN Result("False", m, c)
       ELSE IF patterns = <<>> THEN Result("UnboundLocalError", m, c2)
       ELSE IF n = 0 THEN Result("False", m, c2)
       ELSE Result("True", Update(m, Search(patterns[n], t).groups, 1), c2)

\* whether arg_istype_func calls detect_mimetype on the external classifier
CallsClassifier(m, arguments, c) ==
    LET arg == Format(arguments[1], m.data, 1)
    IN /\ arg.exc = ""
       /\ arg.val \notin DOMAIN c
       /\ m.data["kind"] \in {Kind("url"), Kind("raw")}

-----------------------------------------------------------------------------
(* Action clauses.  Each returns [res, msg]. *)

ActionResult(res, m) == [res |-> res, msg |-> m]

\* log_var_references raises KeyError: some referenced name is not in msg
LogRaises(m, action) == \E v \in VarNames(action) : v \notin DOMAIN m.data

\* ext: what subprocess.call does, [found |-> FALSE] for FileNotFoundError
\* and else the exit status ret.  The except branch logs
\* e.strerror.split("'")[1]: Python before 3.8 puts the quoted name of the
\* program into strerror (ext.quoted), later versions do not, and the
\* subscript raises IndexError
plumb_run_func(m, argument_string, ext) ==
    IF LogRaises(m, argument_string) THEN ActionResult("False", m)
    ELSE IF ~ext.found
    THEN IF ext.quoted THEN ActionResult("False", m)
         ELSE ActionResult("IndexError", m)
    ELSE ActionResult(Bool(ext.ret = 0), m)

plumb_notify_func(m, arguments) ==
    LET message == Format(arguments, m.data, 1)
    IN IF message.exc # "" THEN ActionResult(message.exc, m)
       ELSE IF "rule_name" \notin DOMAIN m.data THEN ActionResult("KeyError", m)
       ELSE ActionResult("True", m)

\* plumb_save_func that binds the name in a copy of msg
BadSave(m, arguments, name) ==
    IF "data" \notin DOMAIN m.data THEN ActionResult("KeyError", m)
    ELSE ActionResult("True", m)

\* name: f.name of the temporary file
plumb_save_func(m, arguments, name) ==
    IF "data" \notin DOMAIN m.data THEN ActionResult("KeyError", m)
    ELSE ActionResult("True", SetItem(m, "data_file", name))

\* ext: "RequestException" raised by requests.get, "OSError" raised while
\* the body is stored, or "ok"; name: f.name of the temporary file
plumb_download_func(m, arguments, ext, name) ==
    IF LogRaises(m, arguments) THEN ActionResult("False", m)
    ELSE IF ext = "RequestException" THEN ActionResult("RequestException", m)
    ELSE IF ext = "OSError" THEN ActionResult("False", m)
    ELSE ActionResult("True", SetItem(m, "filename", name))

-----------------------------------------------------------------------------
(* Inputs: messages as main() builds them, and rules as the parser         *)
(* returns them.                                                          *)

Message(order, mapping) == ElasticDict(mapping, order)

Messages == <<
    Message(<<"data", "kind">>,
            [data |-> <<"f","1">>, kind |-> Kind("raw")]),
    Message(<<"data", "kind">>,
            [data |-> <<"g">>, kind |-> Kind("text")]),
    Message(<<"data", "kind", "netloc", "netpath">>,
            [data |-> <<"s",":","/","/","h","/","p">>, kind |-> Kind("url"),
             netloc |-> <<"h">>, netpath |-> <<"/","p">>]) >>

KindLine(k) == [obj |-> "kind", verb |-> "is", arguments |-> <<k>>]
ArgLine(verb, arg, patterns) ==
    [obj |-> "arg", verb |-> verb, arguments |-> <<arg, patterns>>]
PlumbLine(verb, action) == [obj |-> "plumb", verb |-> verb, action |-> action]

MatchBlocks == <<
    \* no match line at all
    <<>>,
    \* kind is raw / arg matches {data} f(.)
    << KindLine("raw"),
       ArgLine("matches", <<Ref("data")>>, << <<"f","(.)">> >>) >>,
    \* arg matches {data} x(.) (.) / arg is {\0} g
    << ArgLine("matches", <<Ref("data")>>, << <<"x","(.)">>, <<"(.)">> >>),
       ArgLine("is", <<Ref("\\0")>>, << <<"g">> >>) >>,
    \* arg matches {data} (.) / arg is {spam} x
    << ArgLine("matches", <<Ref("data")>>, << <<"(.)">> >>),
       ArgLine("is", <<Ref("spam")>>, << <<"x">> >>) >>,
    \* arg rewrite {data} f,g / arg is {data} g1
    << ArgLine("rewrite", <<Ref("data")>>, << <<"f",",","g">> >>),
       ArgLine("is", <<Ref("data")>>, << <<"g","1">> >>) >>,
    \* arg istype {data} t(.) / kind is url
    << ArgLine("istype", <<Ref("data")>>, << <<"t","(.)">> >>),
       KindLine("url") >>,
    \* arg matches {data} (.)(.) / arg matches {data} f(.) /
    \* arg istype {data} t(.) / arg is {\1} 1
    << ArgLine("matches", <<Ref("data")>>, << <<"(.)","(.)">> >>),
       ArgLine("matches", <<Ref("data")>>, << <<"f","(.)">> >>),
       ArgLine("istype", <<Ref("data")>>, << <<"t","(.)">> >>),
       ArgLine("is", <<Ref("\\1")>>, << <<"1">> >>) >> >>

ActionBlocks == <<
    \* plumb run e {0} / plumb notify {rule_name}
    << PlumbLine("run", <<Lit("e"), Lit(" "), Ref("0")>>),
       PlumbLine("notify", <<Ref("rule_name")>>) >>,
    \* plumb notify {spam} / plumb save
    << PlumbLine("notify", <<Ref("spam")>>),
       PlumbLine("save", <<>>) >>,
    \* plumb save / plumb download {data_file} / plumb run c {filename}
    << PlumbLine("save", <<>>),
       PlumbLine("download", <<Ref("data_file")>>),
       PlumbLine("run", <<Lit("c"), Lit(" "), Ref("filename")>>) >>,
    \* plumb download {spam} / plumb save
    << PlumbLine("download", <<Ref("spam")>>),
       PlumbLine("save", <<>>) >> >>

\* the i-th rule of a file: [name] followed by a match and an action block
Rule(i, mb, ab) ==
    [name |-> <<"r", ToString(i)>>,
     match_lines |-> MatchBlocks[mb], action_lines |-> ActionBlocks[ab]]

\* answers of the external collaborators
MimeTypes == {TextPlain, <<"i","m","a","g","e","/","p","n","g">>}
ClassifierAnswers(kind) ==
    IF kind = Kind("url") THEN MimeTypes \cup {None}
    ELSE IF kind = Kind("raw") THEN MimeTypes \cup {SystemExit}
    ELSE {None}
ExitAnswers ==
    {[found |-> TRUE, ret |-> 0, quoted |-> FALSE],
     [found |-> TRUE, ret |-> 1, quoted |-> FALSE],
     [found |-> FALSE, ret |-> 0, quoted |-> TRUE],
     [found |-> FALSE, ret |-> 0, quoted |-> FALSE]}
DownloadAnswers == {"ok", "OSError", "RequestException"}
TempNames == {<<"/","t","1">>, <<"/","t","2">>}

-----------------------------------------------------------------------------
(* handle_rules *)

\* dict(m) if the changelog of m is empty, taken before m is written to
Snapshot(m, old) == IF m.changelog = <<>> THEN m.data ELSE old

Init ==
    /\ \E i \in 1..Len(Messages) : msg = Messages[i]
    /\ \E n \in 0..MaxRules :
         \E mb \in [1..n -> 1..Len(MatchBlocks)],
            ab \in [1..n -> 1..Len(ActionBlocks)] :
             rules = [i \in 1..n |-> Rule(i, mb[i], ab[i])]
    /\ cache = <<>>
    /\ ri = 1
    /\ li = 1
    /\ pc = "for"
    /\ outcome = ""
    /\ trace = <<>>
    /\ rule_start = msg.data
    /\ before = msg.data
    /\ asked = <<>>

\* a call of a clause function: where it was made, what it returned, and
\* dict(msg) before and after it
Event(block, r) ==
    [rule |-> ri, block |-> block, line |-> li, res |-> r.res,
     pre |-> msg.data, post |-> r.msg.data]

\* "for rule in rules:" and the else branch of the loop
ForRule ==
    /\ pc = "for"
    /\ IF ri <= Len(rules)
       THEN /\ pc' = "match"
            /\ li' = 1
            /\ rule_start' = msg.data
            /\ outcome' = outcome
       ELSE /\ pc' = "done"
            /\ outcome' = "nomatch"
            /\ UNCHANGED <<li, rule_start>>
    /\ UNCHANGED <<msg, cache, rules, ri, trace, before, asked>>

\* the inner loop without its break: a False clause is passed over
BadMatchStep(r) ==
    /\ msg' = r.msg
    /\ cache' = r.cache
    /\ trace' = Append(trace, Event("match", r))
    /\ before' = Snapshot(msg, before)
    /\ IF r.res \in {"True", "False"}
       THEN /\ li' = li + 1
            /\ UNCHANGED <<pc, outcome>>
       ELSE /\ pc' = "raised"
            /\ outcome' = r.res
            /\ UNCHANGED li
    /\ UNCHANGED <<rules, ri, rule_start>>

\* "res, msg, cache = f(msg, arguments, cache)" and "if not res: break"
MatchStep(r) ==
    /\ msg' = r.msg
    /\ cache' = r.cache
    /\ trace' = Append(trace, Event("match", r))
    /\ before' = Snapshot(msg, before)
    /\ IF r.res = "True"
       THEN /\ li' = li + 1
            /\ UNCHANGED <<pc, outcome>>
       ELSE IF r.res = "False"
       THEN /\ pc' = "revert"
            /\ UNCHANGED <<li, outcome>>
       ELSE /\ pc' = "raised"
            /\ outcome' = r.res
            /\ UNCHANGED li
    /\ UNCHANGED <<rules, ri, rule_start>>

\* the match line the inner for loop is at
AtMatchLine(obj, verb) ==
    /\ pc = "match"
    /\ li <= Len(rules[ri].match_lines)
    /\ rules[ri].match_lines[li].obj = obj
    /\ rules[ri].match_lines[li].verb = verb

MatchArguments == rules[ri].match_lines[li].arguments

KindIs ==
    /\ AtMatchLine("kind", "is")
    /\ MatchStep(kind_is_func(msg, MatchArguments, cache))
    /\ UNCHANGED asked

ArgIs ==
    /\ AtMatchLine("arg", "is")
    /\ MatchStep(arg_is_func(msg, MatchArguments, cache))
    /\ UNCHANGED asked

ArgMatches ==
    /\ AtMatchLine("arg", "matches")
    /\ MatchStep(arg_matches_func(msg, MatchArguments, cache))
    /\ UNCHANGED asked

ArgRewrite ==
    /\ AtMatchLine("arg", "rewrite")
    /\ MatchStep(arg_rewrite_func(msg, MatchArguments, cache))
    /\ UNCHANGED asked

ArgIstype ==
    /\ AtMatchLine("arg", "istype")
    /\ IF CallsClassifier(msg, MatchArguments, cache)
       THEN \E ext \in ClassifierAnswers(msg.data["kind"]) :
               /\ MatchStep(arg_istype_func(msg, MatchArguments, cache, ext))
               /\ asked' = Append(asked,
                     [value |-> Format(MatchArguments[1], msg.data, 1).val,
                      answer |-> ext])
       ELSE /\ MatchStep(arg_istype_func(msg, MatchArguments, cache, None))
            /\ UNCHANGED asked

\* the rule taken as matched without "msg['rule_name'] = rule_name"
UnnamedRuleMatched ==
    /\ pc = "match"
    /\ li > Len(rules[ri].match_lines)
    /\ pc' = "act"
    /\ li' = 1
    /\ UNCHANGED <<msg, before, cache, rules, ri, outcome, trace, rule_start,
                   asked>>

\* a rule without match lines taken as not matched
BadRuleMatched ==
    /\ pc = "match"
    /\ li > Len(rules[ri].match_lines)
    /\ IF Len(rules[ri].match_lines) = 0
       THEN /\ pc' = "revert"
            /\ UNCHANGED <<msg, li, before>>
       ELSE /\ msg' = SetItem(msg, "rule_name", rules[ri].name)
            /\ before' = Snapshot(msg, before)
            /\ pc' = "act"
            /\ li' = 1
    /\ UNCHANGED <<cache, rules, ri, outcome, trace, rule_start, asked>>

\* the else branch of the inner for loop, and "msg['rule_name'] = rule_name"
RuleMatched ==
    /\ pc = "match"
    /\ li > Len(rules[ri].match_lines)
    /\ msg' = SetItem(msg, "rule_name", rules[ri].name)
    /\ before' = Snapshot(msg, before)
    /\ pc' = "act"
    /\ li' = 1
    /\ UNCHANGED <<cache, rules, ri, outcome, trace, rule_start, asked>>

\* the action loop without its break: a False action is passed over
BadActionStep(r) ==
    /\ msg' = r.msg
    /\ trace' = Append(trace, Event("action", r))
    /\ before' = Snapshot(msg, before)
    /\ IF r.res \in {"True", "False"}
       THEN /\ li' = li + 1
            /\ UNCHANGED <<pc, outcome>>
       ELSE /\ pc' = "raised"
            /\ outcome' = r.res
            /\ UNCHANGED li
    /\ UNCHANGED <<cache, rules, ri, rule_start, asked>>

\* the action loop with "msg.reverse()" before the break of a False action
RevertingActionStep(r) ==
    /\ msg' = IF r.res = "False" THEN Reverse(r.msg) ELSE r.msg
    /\ trace' = Append(trace, Event("action", r))
    /\ before' = Snapshot(msg, before)
    /\ IF r.res = "True"
       THEN /\ li' = li + 1
            /\ UNCHANGED <<pc, outcome>>
       ELSE IF r.res = "False"
       THEN /\ pc' = "done"
            /\ outcome' = "matched"
            /\ UNCHANGED li
       ELSE /\ pc' = "raised"
            /\ outcome' = r.res
            /\ UNCHANGED li
    /\ UNCHANGED <<cache, rules, ri, rule_start, asked>>

\* "res, msg = f(msg, action)" and "if not res: break" (then the outer break)
ActionStep(r) ==
    /\ msg' = r.msg
    /\ trace' = Append(trace, Event("action", r))
    /\ before' = Snapshot(msg, before)
    /\ IF r.res = "True"
       THEN /\ li' = li + 1
            /\ UNCHANGED <<pc, outcome>>
       ELSE IF r.res = "False"
       THEN /\ pc' = "done"
            /\ outcome' = "matched"
            /\ UNCHANGED li
       ELSE /\ pc' = "raised"
            /\ outcome' = r.res
            /\ UNCHANGED li
    /\ UNCHANGED <<cache, rules, ri, rule_start, asked>>

AtActionLine(verb) ==
    /\ pc = "act"
    /\ li <= Len(rules[ri].action_lines)
    /\ rules[ri].action_lines[li].obj = "plumb"
    /\ rules[ri].action_lines[li].verb = verb

\* "action = escape_match_group_references(action)"
Action == escape_match_group_references(rules[ri].action_lines[li].action)

PlumbRun ==
    /\ AtActionLine("run")
    /\ \E ext \in ExitAnswers : ActionStep(plumb_run_func(msg, Action, ext))

PlumbNotify ==
    /\ AtActionLine("notify")
    /\ ActionStep(plumb_notify_func(msg, Action))

PlumbSave ==
    /\ AtActionLine("save")
    /\ \E name \in TempNames : ActionStep(plumb_save_func(msg, Action, name))

PlumbDownload ==
    /\ AtActionLine("download")
    /\ \E ext \in DownloadAnswers, name \in TempNames :
          ActionStep(plumb_download_func(msg, Action, ext, name))

\* the outer loop without its break: the next rule is tried
BadBreak ==
    /\ pc = "act"
    /\ li > Len(rules[ri].action_lines)
    /\ pc' = "for"
    /\ ri' = ri + 1
    /\ UNCHANGED <<msg, cache, rules, li, outcome, trace, rule_start, before, asked>>

\* the action lines are exhausted: the outer "break"
Break ==
    /\ pc = "act"
    /\ li > Len(rules[ri].action_lines)
    /\ pc' = "done"
    /\ outcome' = "matched"
    /\ UNCHANGED <<msg, cache, rules, ri, li, trace, rule_start, before, asked>>

\* "msg.reverse()" with the type cache emptied as well
CacheClearingRevert ==
    /\ pc = "revert"
    /\ msg' = Reverse(msg)
    /\ cache' = <<>>
    /\ ri' = ri + 1
    /\ pc' = "for"
    /\ UNCHANGED <<rules, li, outcome, trace, rule_start, before, asked>>

\* the next rule without "msg.reverse()"
BadRevert ==
    /\ pc = "revert"
    /\ ri' = ri + 1
    /\ pc' = "for"
    /\ UNCHANGED <<msg, cache, rules, li, outcome, trace, rule_start, before, asked>>

\* the else branch of "if rule_matched": "msg.reverse()", then the next rule
Revert ==
    /\ pc = "revert"
    /\ msg' = Reverse(msg)
    /\ ri' = ri + 1
    /\ pc' = "for"
    /\ UNCHANGED <<cache, rules, li, outcome, trace, rule_start, before, asked>>

Next ==
    \/ ForRule
    \/ KindIs
    \/ ArgIs
    \/ ArgMatches
    \/ ArgRewrite
    \/ ArgIstype
    \/ RuleMatched
    \/ PlumbRun
    \/ PlumbNotify
    \/ PlumbSave
    \/ PlumbDownload
    \/ Break
    \/ Revert

Spec == Init /\ [][Next]_vars

-----------------------------------------------------------------------------
(* A bare ElasticDict, written to and reversed in any order *)

DictKeys == {"spam", "tea"}
DictValues == {<<"e","g","g","s">>, <<"b","a","c","o","n">>}

\* the orders a dict with these keys can have
Orders(keys) ==
    {o \in [1..Cardinality(keys) -> keys] :
        \A i, j \in 1..Cardinality(keys) : i # j => o[i] # o[j]}

DictInit ==
    /\ \E keys \in SUBSET DictKeys :
         \E mapping \in [keys -> DictValues], order \in Orders(keys) :
             msg = ElasticDict(mapping, order)
    /\ cache = <<>>
    /\ rules = <<>>
    /\ ri = 1
    /\ li = 1
    /\ pc = "dict"
    /\ outcome = ""
    /\ trace = <<>>
    /\ rule_start = msg.data
    /\ before = msg.data
    /\ asked = <<>>

\* d[key] = value
DictSetItem ==
    /\ pc = "dict"
    /\ Len(trace) < MaxOps
    /\ \E key \in DictKeys, value \in DictValues :
          /\ msg' = SetItem(msg, key, value)
          /\ trace' = Append(trace, [op |-> "set", key |-> key])
    /\ before' = Snapshot(msg, before)
    /\ UNCHANGED <<cache, rules, ri, li, pc, outcome, rule_start, asked>>

\* d.reverse()
DictReverse ==
    /\ pc = "dict"
    /\ Len(trace) < MaxOps
    /\ msg' = Reverse(msg)
    /\ trace' = Append(trace, [op |-> "reverse", key |-> ""])
    /\ UNCHANGED <<cache, rules, ri, li, pc, outcome, rule_start, before, asked>>

DictNext ==
    \/ DictSetItem
    \/ DictReverse

DictSpec == DictInit /\ [][DictNext]_vars

-----------------------------------------------------------------------------
(* One call of a match clause function, as the unit tests make it *)

\* the sequences over the elements of a sequence, of length 1 to n
SeqsUpTo(elems, n) ==
    UNION {{[i \in 1..k |-> elems[f[i]]] : f \in [1..k -> 1..Len(elems)]} :
           k \in 1..n}

CallMessages == <<
    Message(<<"data", "kind">>,
            [data |-> <<"f","1">>, kind |-> Kind("raw")]),
    Message(<<"data", "kind", "\\0", "\\1", "\\2">>,
            ("data" :> <<"f","1">>) @@ ("kind" :> Kind("url")) @@
            ("\\0" :> <<"z">>) @@ ("\\1" :> <<"y">>) @@ ("\\2" :> <<"w">>)),
    Message(<<"data", "kind">>,
            [data |-> <<"f","g","f">>, kind |-> Kind("text")]) >>

\* {data}, x{data}y, {1} and {spam}
CallTargets == <<
    <<Ref("data")>>,
    <<Lit("x"), Ref("data"), Lit("y")>>,
    <<Ref("1")>>,
    <<Ref("spam")>> >>

\* f(.), (.)1, (.)(.) and t(.)
CallRegexes == << <<"f","(.)">>, <<"(.)","1">>, <<"(.)","(.)">>, <<"t","(.)">> >>

\* f,g  g,h  1, and a word without a comma
CallSubstitutions == << <<"f",",","g">>, <<"g",",","h">>, <<"1",",">>, <<"f","g">> >>

CallChecks == << <<"f","1">>, <<"y">> >>

CallLines ==
    UNION {
        {ArgLine("matches", CallTargets[t], p) :
            p \in SeqsUpTo(CallRegexes, MaxPatterns)} \cup
        {ArgLine("istype", CallTargets[t], p) :
            p \in SeqsUpTo(CallRegexes, MaxPatterns)} \cup
        {ArgLine("rewrite", CallTargets[t], p) :
            p \in SeqsUpTo(CallSubstitutions, MaxPatterns)} \cup
        {ArgLine("is", CallTargets[t], p) :
            p \in SeqsUpTo(CallChecks, MaxPatterns)} :
        t \in 1..Len(CallTargets)}

CallInit ==
    /\ \E i \in 1..Len(CallMessages) : msg = CallMessages[i]
    /\ \E line \in CallLines :
          rules = <<[name |-> <<"r", "1">>, match_lines |-> <<line>>,
                     action_lines |-> <<>>]>>
    /\ cache = <<>>
    /\ ri = 1
    /\ li = 1
    /\ pc = "match"
    /\ outcome = ""
    /\ trace = <<>>
    /\ rule_start = msg.data
    /\ before = msg.data
    /\ asked = <<>>

CallNext ==
    \/ ArgIs
    \/ ArgMatches
    \/ ArgRewrite
    \/ ArgIstype

CallSpec == CallInit /\ [][CallNext]_vars

-----------------------------------------------------------------------------
(* The rule parser (mario/parser.py): one section of a rule file parsed to
   the list the parser tests expect.  A text is a sequence of lines, a line
   the sequence of its words, comments and white space already removed. *)

Verbs == {"is", "istype", "matches", "rewrite"}

From(seq, n) == SubSeq(seq, n, Len(seq))

\* the line starts a match clause
ClauseLine(line) ==
    /\ Len(line) >= 2
    /\ line[1] \in {"arg", "data"}
    /\ line[2] \in Verbs

\* a data line kept as it is written
BadMatchClause(line) ==
    IF line[1] = "data"
    THEN <<line[1], line[2], "", From(line, 3)>>
    ELSE <<"arg", line[2], line[3], From(line, 4)>>

\* the clause of a clause line: [obj, verb, target, [patterns]]
MatchClause(line) ==
    IF line[1] = "data"
    THEN <<"arg", line[2], "{data}", From(line, 3)>>
    ELSE <<"arg", line[2], line[3], From(line, 4)>>

ParseResult(error, value) == [error |-> error, value |-> value]

RECURSIVE ParseMatchBlock(_, _, _)
\* the clauses of the match lines from line i on, acc the clauses so far
ParseMatchBlock(lines, i, acc) ==
    IF i > Len(lines) THEN ParseResult(FALSE, acc)
    ELSE LET line == lines[i]
         IN IF line = <<>> THEN ParseMatchBlock(lines, i + 1, acc)
            ELSE IF ClauseLine(line)
            THEN IF line[1] = "arg" /\ Len(line) < 3
                 THEN ParseResult(TRUE, <<>>)
                 ELSE ParseMatchBlock(lines, i + 1,
                                      Append(acc, MatchClause(line)))
            ELSE IF acc = <<>> THEN ParseResult(TRUE, <<>>)
            ELSE LET n == Len(acc)
                 IN ParseMatchBlock(lines, i + 1,
                        [acc EXCEPT ![n] = [@ EXCEPT ![4] = @ \o line]])

\* [name] / kind is k / match lines / plumb lines
parse_rules_string(text) ==
    LET plumbs == {i \in 3..Len(text) :
                      text[i] # <<>> /\ text[i][1] = "plumb"}
        p == IF plumbs = {} THEN Len(text) + 1
             ELSE CHOOSE i \in plumbs : \A j \in plumbs : i <= j
        block == ParseMatchBlock(SubSeq(text, 3, p - 1), 1, <<>>)
        actions == [i \in 1..(Len(text) - p + 1) |->
                       <<"plumb", text[p + i - 1][2], From(text[p + i - 1], 3)>>]
    IN IF plumbs = {} \/ block.error THEN ParseResult(TRUE, <<>>)
       ELSE ParseResult(FALSE,
                << <<text[1][2], <<text[2], block.value, actions>> >> >>)

\* the match lines of the rule files parsed
MatchLines == <<
    <<"data", "is", "foo">>,
    <<"data", "istype", "foo">>,
    <<"data", "matches", "foo", "bar">>,
    <<"data", "rewrite", "foo">>,
    <<"arg", "is", "{data}", "foo">>,
    <<"arg", "istype", "{data}", "foo">>,
    <<"arg", "matches", "{data}", "foo", "bar">>,
    <<"arg", "rewrite", "{data}", "foo">>,
    <<"arg", "matches", "{spam}", "eggs">>,
    <<"bar", "baz">>,
    <<>>
>>

\* [test] / kind is raw / up to MaxLines match lines / plumb run firefox
RuleTexts ==
    {<< <<"[", "test", "]">>, <<"kind", "is", "raw">> >> \o block \o
     << <<"plumb", "run", "firefox">> >> :
        block \in {<<>>} \cup SeqsUpTo(MatchLines, MaxLines)}

ParseInit ==
    /\ msg = ElasticDict(<<>>, <<>>)
    /\ cache = <<>>
    /\ rules = <<>>
    /\ ri = 1
    /\ li = 1
    /\ pc = "parse"
    /\ outcome = ""
    /\ trace = <<>>
    /\ rule_start = <<>>
    /\ before = <<>>
    /\ asked = <<>>

\* parse_rules_string_exc(parser, text, extract_parse_result_as_list)
ParseRulesString ==
    /\ pc = "parse"
    /\ \E text \in RuleTexts :
          LET r == parse_rules_string(text)
          IN /\ trace' = <<[text |-> text, res |-> r]>>
             /\ rules' = r.value
             /\ outcome' = IF r.error THEN "ParseError" ELSE "parsed"
    /\ pc' = "done"
    /\ UNCHANGED <<msg, cache, ri, li, rule_start, before, asked>>

ParseNext == ParseRulesString

ParseSpec == ParseInit /\ [][ParseNext]_vars

-----------------------------------------------------------------------------
(* Properties of handle_rules *)

Events == 1..Len(trace)

MatchEvent(i) == trace[i].block = "match"
ActionEvent(i) == trace[i].block = "action"

\* the match line an event of the match block is the evaluation of
LineOf(i) == rules[trace[i].rule].match_lines[trace[i].line]

\* C1: rollback atomicity.  When handle_rules is back at the head of the
\* loop, after the revert of a rule in which a match clause returned False,
\* msg has exactly the keys and values it had when the first clause of that
\* rule was reached; and every rule is started with the keys and values the
\* message was created with.
RollbackAtomicity ==
    /\ rule_start = msg.original
    /\ pc = "for" => msg.data = rule_start

\* a rule whose first clause bound \0 and whose second clause returned
\* False has been reverted
RollbackWitness ==
    /\ pc = "for"
    /\ ri = 2
    /\ Len(trace) = 2
    /\ LineOf(1).verb = "matches"
    /\ trace[1].res = "True"
    /\ trace[2].res = "False"
    /\ msg.data = rule_start

\* C2: first match wins.  Whenever an action has been executed, it is an
\* action of the one rule k all of whose match clauses returned True, every
\* rule before k has a clause that returned False, all executed actions are
\* actions of k, and no clause or action of a rule after k is evaluated,
\* neither before nor after the actions.
FirstMatchWins ==
    \A i \in Events : ActionEvent(i) =>
        LET k == trace[i].rule
        IN /\ \A j \in Events :
                /\ trace[j].rule <= k
                /\ ActionEvent(j) => trace[j].rule = k
                /\ j > i => ActionEvent(j)
           /\ \A r \in 1..(k - 1) :
                \E j \in 1..i : /\ trace[j].rule = r
                                /\ MatchEvent(j)
                                /\ trace[j].res = "False"
           /\ \A l \in 1..Len(rules[k].match_lines) :
                \E j \in 1..i : /\ trace[j].rule = k
                                /\ MatchEvent(j)
                                /\ trace[j].line = l
                                /\ trace[j].res = "True"

\* the first rule failed, the second matched and ran all its actions
FirstMatchWitness ==
    /\ pc = "done"
    /\ outcome = "matched"
    /\ ri = 2
    /\ \E i \in Events : MatchEvent(i) /\ trace[i].rule = 1
                         /\ trace[i].res = "False"
    /\ \E i \in Events : ActionEvent(i) /\ trace[i].rule = 2
    /\ li > Len(rules[2].action_lines)

\* C3: an action that returns False is the last call of the run: no later
\* action of the rule is executed, no later rule is tried, and handle_rules
\* has returned with the rule as the matched one.
ActionFailureAborts ==
    \A i \in Events : (ActionEvent(i) /\ trace[i].res = "False") =>
        /\ i = Len(trace)
        /\ pc = "done"
        /\ outcome = "matched"
        /\ ri = trace[i].rule
        /\ li = trace[i].line

\* an action returned False with an action and a rule still to come
ActionFailureWitness ==
    /\ pc = "done"
    /\ trace # <<>>
    /\ ActionEvent(Len(trace))
    /\ trace[Len(trace)].res = "False"
    /\ li < Len(rules[ri].action_lines)
    /\ ri < Len(rules)

\* C4: a match clause whose target expression names a variable that is not
\* in msg behaves as a clause that returned False: no evaluation of a match
\* clause ends in a KeyError that leaves handle_rules.
MatchMissingVariableFails ==
    \A i \in Events : MatchEvent(i) => trace[i].res # "KeyError"

\* C5: an action whose argument string names a variable that is not in msg
\* returns False: no execution of an action ends in a KeyError that leaves
\* handle_rules.
ActionMissingVariableFails ==
    \A i \in Events : ActionEvent(i) => trace[i].res # "KeyError"

\* C6: short-circuit AND.  The match clauses of a rule are evaluated in
\* declared order, each at most once, and a clause is evaluated only if
\* every earlier clause of the rule returned True.
ShortCircuit ==
    \A i \in Events : MatchEvent(i) =>
        LET earlier == {j \in 1..(i - 1) : /\ trace[j].rule = trace[i].rule
                                           /\ MatchEvent(j)}
        IN /\ trace[i].line = 1 + Cardinality(earlier)
           /\ \A j \in earlier : trace[j].res = "True"

\* the run is over and a clause that returned False had clauses after it
ShortCircuitWitness ==
    /\ pc = "done"
    /\ \E i \in Events :
          /\ MatchEvent(i)
          /\ trace[i].res = "False"
          /\ trace[i].line < Len(rules[trace[i].rule].match_lines)

CaptureKeys == {"\\" \o n : n \in DigitNames}

\* the number of groups of a pattern
GroupCount(pattern) == Cardinality({j \in 1..Len(pattern) : pattern[j] = "(.)"})

\* the number of groups every pattern of the list has at least
MinGroups(patterns) ==
    CHOOSE n \in 0..Len(patterns[1]) :
        /\ \A p \in 1..Len(patterns) : GroupCount(patterns[p]) >= n
        /\ \E p \in 1..Len(patterns) : GroupCount(patterns[p]) = n

\* C7: capture binding lifetime.  After a matches or istype clause of the
\* current rule returned True, the capture variables of its groups are in
\* msg for as long as the rule is the current one (its later clauses, its
\* actions); and msg holds a capture variable only if a clause of the
\* current rule has bound one, so none when a rule is started.
CaptureLifetime ==
    /\ \A i \in Events :
          ( /\ trace[i].rule = ri
            /\ MatchEvent(i)
            /\ trace[i].res = "True"
            /\ LineOf(i).verb \in {"matches", "istype"} ) =>
          \A n \in 0..(MinGroups(LineOf(i).arguments[2]) - 1) :
              ("\\" \o ToString(n)) \in DOMAIN msg.data
    /\ (DOMAIN msg.data) \cap CaptureKeys # {} =>
          \E i \in Events : /\ trace[i].rule = ri
                            /\ MatchEvent(i)
                            /\ trace[i].res = "True"
                            /\ LineOf(i).verb \in {"matches", "istype", "rewrite"}

\* the first rule bound \0 and failed; the second bound \0 itself and its
\* action "run e {0}" read it
CaptureLifetimeWitness ==
    /\ pc = "done"
    /\ ri = 2
    /\ \E i \in Events : /\ trace[i].rule = 1 /\ MatchEvent(i)
                         /\ trace[i].res = "True"
                         /\ LineOf(i).verb = "matches"
    /\ \E i \in Events : /\ trace[i].rule = 2 /\ MatchEvent(i)
                         /\ trace[i].res = "True"
                         /\ LineOf(i).verb = "matches"
    /\ \E i \in Events : /\ ActionEvent(i) /\ trace[i].res = "True"
                         /\ rules[2].action_lines[trace[i].line].verb = "run"
    /\ "\\0" \in DOMAIN msg.data

\* C9: when every rule of the list has a match clause that does not succeed
\* (it returns False, or its variable is missing), handle_rules ends with
\* "No rule matched" and no action has been executed.
NoRuleMatched ==
    ( /\ pc \in {"done", "raised"}
      /\ \A r \in 1..Len(rules) :
            \E i \in Events : /\ trace[i].rule = r
                              /\ MatchEvent(i)
                              /\ trace[i].res \in {"False", "KeyError"} ) =>
    ( /\ outcome = "nomatch"
      /\ \A i \in Events : ~ActionEvent(i) )

\* C10: a rule without match lines always matches.  Evaluation never goes
\* past it; when it is reached, the step that takes it as matched is
\* enabled, it is never reverted, and when the run is over its first action
\* has been executed.
EmptyMatchAlwaysMatches ==
    \A r \in 1..Len(rules) : Len(rules[r].match_lines) = 0 =>
        /\ ri <= r
        /\ ri = r =>
             /\ pc \in {"for", "match", "act", "done", "raised"}
             /\ outcome # "nomatch"
             /\ pc = "match" => ENABLED RuleMatched
             /\ (pc \in {"done", "raised"} /\ rules[r].action_lines # <<>>) =>
                   \E i \in Events : /\ ActionEvent(i)
                                     /\ trace[i].rule = r
                                     /\ trace[i].line = 1

\* a rule without match lines was reached after a failed rule and its
\* actions were run
EmptyMatchWitness ==
    /\ pc = "done"
    /\ outcome = "matched"
    /\ ri = 2
    /\ Len(rules[2].match_lines) = 0
    /\ \E i \in Events : ActionEvent(i) /\ trace[i].rule = 2

-----------------------------------------------------------------------------
(* Properties of the match clause functions *)

\* the key of the capture variable of group n (counted from 0)
CaptureKey(n) == "\\" \o ToString(n)

\* the text a call resolved its target expression to
Resolved(i) == Format(LineOf(i).arguments[1], trace[i].pre, 1).val

\* the patterns of the call that match the resolved text
Hits(i) ==
    {n \in 1..Len(LineOf(i).arguments[2]) :
        Search(LineOf(i).arguments[2][n], Resolved(i)).found}

\* the groups of the first pattern of the call that matches
FirstGroups(i) ==
    LET n == CHOOSE x \in Hits(i) : \A y \in Hits(i) : x <= y
    IN Search(LineOf(i).arguments[2][n], Resolved(i)).groups

\* C11: arg matches, once its target expression is resolved, returns True
\* iff some pattern matches the text; then msg is what it was with \0, \1,
\* ... set to the groups of the first matching pattern, in group order,
\* existing values of these variables overwritten and nothing else changed;
\* when no pattern matches msg is unchanged.
ArgMatchesBindsFirst ==
    \A i \in Events :
        (LineOf(i).verb = "matches" /\ trace[i].res \in {"True", "False"}) =>
        /\ trace[i].res = "True" <=> Hits(i) # {}
        /\ Hits(i) = {} => trace[i].post = trace[i].pre
        /\ Hits(i) # {} =>
             LET g == FirstGroups(i)
                 bound == {CaptureKey(n - 1) : n \in 1..Len(g)}
             IN /\ DOMAIN trace[i].post = DOMAIN trace[i].pre \cup bound
                /\ \A n \in 1..Len(g) : trace[i].post[CaptureKey(n - 1)] = g[n]
                /\ \A k \in (DOMAIN trace[i].pre) \ bound :
                      trace[i].post[k] = trace[i].pre[k]

\* two patterns with different groups match, \0 had a value, and \0 now
\* is the group of the first pattern
ArgMatchesWitness ==
    /\ Len(trace) = 1
    /\ LineOf(1).verb = "matches"
    /\ trace[1].res = "True"
    /\ Cardinality(Hits(1)) = 2
    /\ Search(LineOf(1).arguments[2][2], Resolved(1)).groups # FirstGroups(1)
    /\ "\\0" \in DOMAIN trace[1].pre
    /\ trace[1].post["\\0"] # trace[1].pre["\\0"]
    /\ trace[1].post["\\0"] = FirstGroups(1)[1]

\* the name between the braces of a target expression with one reference
EmbeddedName(arg) ==
    LET e == escape_match_group_references(arg)
    IN e[CHOOSE j \in 1..Len(e) : e[j].t = "ref"].s

\* old,new applied to the text, pair after pair from pair n on
RECURSIVE Substituted(_, _, _)
Substituted(pairs, text, n) ==
    IF n > Len(pairs) THEN text
    ELSE Substituted(pairs,
                     Replace(text, Split(pairs[n])[1], Split(pairs[n])[2]),
                     n + 1)

\* C12: arg rewrite, for a target expression that can be resolved and
\* substitutions that are old,new pairs, returns True and leaves msg as it
\* was but for the variable named between the braces of the expression,
\* which is bound to the resolved text with the pairs applied in order;
\* also when the expression has literal text around the braces.
ArgRewriteBindsName ==
    \A i \in Events :
        LET arg == LineOf(i).arguments[1]
            pairs == LineOf(i).arguments[2]
            text == Format(escape_match_group_references(arg), trace[i].pre, 1)
        IN ( /\ LineOf(i).verb = "rewrite"
             /\ text.exc = ""
             /\ \A n \in 1..Len(pairs) : Len(Split(pairs[n])) = 2 ) =>
           /\ trace[i].res = "True"
           /\ trace[i].post =
                 (EmbeddedName(arg) :> Substituted(pairs, text.val, 1))
                 @@ trace[i].pre

-----------------------------------------------------------------------------
(* Properties of the type cache and of the actions *)

\* the action line an event of the action block is the execution of
ActionLineOf(i) == rules[trace[i].rule].action_lines[trace[i].line]

\* C13: within one run the classifier is asked at most once about each
\* resolved value, across all clauses and rules and whatever it answered.
ClassifierAskedOnce ==
    \A i, j \in 1..Len(asked) : i < j => asked[i].value # asked[j].value

\* what the type cache does give: a value is asked about again only when
\* the classifier returned no type for it
ClassifierAskedOncePerType ==
    \A i, j \in 1..Len(asked) :
        (i < j /\ asked[i].value = asked[j].value) => ~Truthy(asked[i].answer)

\* every content type the classifier returned is in the type cache, under
\* the value it was asked about
TypesMemoized ==
    \A i \in 1..Len(asked) :
        (Truthy(asked[i].answer) /\ asked[i].answer # SystemExit) =>
            /\ asked[i].value \in DOMAIN cache
            /\ cache[asked[i].value] = asked[i].answer

\* C21: the type cache is outside the rollback.  A content type memoized by
\* an istype clause stays in the cache in every later state of the run, the
\* revert of a failed rule leaves the cache as it is, and an istype clause
\* whose value is in the cache does not ask the classifier.
TypeCacheOutsideRollback ==
    /\ []TypesMemoized
    /\ [][pc = "revert" => cache' = cache]_vars
    /\ [][(AtMatchLine("arg", "istype")
             /\ Format(MatchArguments[1], msg.data, 1).val \in DOMAIN cache)
           => asked' = asked]_vars

\* the first rule memoized a type and failed, and after its revert the
\* istype clause of the second rule matched on the memoized type with the
\* classifier asked once in all
TypeCacheWitness ==
    /\ ri = 2
    /\ Len(asked) = 1
    /\ Truthy(asked[1].answer)
    /\ asked[1].value \in DOMAIN cache
    /\ \E i, j \in Events :
          /\ trace[i].rule = 1 /\ MatchEvent(i) /\ LineOf(i).verb = "istype"
          /\ trace[i].res = "True"
          /\ trace[j].rule = 2 /\ MatchEvent(j) /\ LineOf(j).verb = "istype"
          /\ trace[j].res = "True"
          /\ trace[j].pre = rule_start
          /\ Format(LineOf(j).arguments[1], trace[j].pre, 1).val = asked[1].value

\* the groups a matches or istype clause that returned True has bound:
\* those of the first pattern matching the resolved text, or its type
BoundGroups(i) ==
    LET patterns == LineOf(i).arguments[2]
        text == IF LineOf(i).verb = "istype" THEN cache[Resolved(i)]
                ELSE Resolved(i)
    IN Search(patterns[FirstMatching(patterns, text)], text).groups

\* C22: a matches or istype clause that returned True with k groups has
\* written \0 .. \(k-1) and nothing else: every other variable, a capture
\* variable \j with j >= k of an earlier clause included, has the value it
\* had, and the next clause or action of the rule is handed these values.
CapturesOverwrittenNotCleared ==
    \A i \in Events :
        ( /\ MatchEvent(i)
          /\ LineOf(i).verb \in {"matches", "istype"}
          /\ trace[i].res = "True" ) =>
        LET written == {CaptureKey(n - 1) : n \in 1..Len(BoundGroups(i))}
        IN /\ DOMAIN trace[i].post = DOMAIN trace[i].pre \cup written
           /\ \A key \in (DOMAIN trace[i].pre) \ written :
                 trace[i].post[key] = trace[i].pre[key]
           /\ (i + 1 \in Events /\ trace[i + 1].rule = trace[i].rule) =>
                 \A key \in DOMAIN trace[i].post :
                    /\ key \in DOMAIN trace[i + 1].pre
                    /\ trace[i + 1].pre[key] = trace[i].post[key]

\* (.)(.) bound \0 and \1, then f(.) and t(.) each bound \0 only, and the
\* later clause arg is {\1} 1 and an action were handed the \1 of (.)(.)
CapturesWitness ==
    /\ pc = "done"
    /\ outcome = "matched"
    /\ Len(rules[ri].match_lines) = 4
    /\ \E i \in Events :
          /\ ActionEvent(i) /\ trace[i].rule = ri
          /\ "\\1" \in DOMAIN trace[i].pre
          /\ trace[i].pre["\\1"] = <<"1">>
          /\ trace[i].pre["\\0"] = <<"e">>
    /\ \E i \in Events :
          /\ MatchEvent(i) /\ trace[i].rule = ri /\ trace[i].line = 2
          /\ trace[i].pre["\\0"] = <<"f">>
          /\ trace[i].post["\\0"] = <<"1">>
          /\ trace[i].post["\\1"] = <<"1">>

\* the variables a call has bound: new in msg, or with a new value
Written(i) ==
    {key \in DOMAIN trace[i].post :
        key \notin DOMAIN trace[i].pre
        \/ trace[i].post[key] # trace[i].pre[key]}

\* the current rule has matched in full: its actions are being executed or
\* handle_rules has returned after them
Matched == pc = "act" \/ (pc = "done" /\ outcome = "matched")

\* C23: once a rule has matched in full msg is not reverted.  While its
\* actions run and when handle_rules has returned, also after an action
\* returned False, rule_name is the name of the rule, every variable a
\* match clause or an action of the rule has bound is in msg with the value
\* of the last call that bound it, and the changelog has not been emptied.
NoRevertAfterMatch ==
    Matched =>
        /\ "rule_name" \in DOMAIN msg.data
        /\ msg.data["rule_name"] = rules[ri].name
        /\ msg.changelog # <<>>
        /\ \A i \in Events : trace[i].rule = ri =>
              \A key \in Written(i) :
                 /\ key \in DOMAIN msg.data
                 /\ (\A j \in Events : j > i => key \notin Written(j)) =>
                       msg.data[key] = trace[i].post[key]

\* a match clause bound \0, plumb save bound data_file, the next action
\* returned False, and handle_rules returned with all of them in msg
NoRevertWitness ==
    /\ pc = "done"
    /\ outcome = "matched"
    /\ Len(trace) >= 1
    /\ ActionEvent(Len(trace))
    /\ trace[Len(trace)].res = "False"
    /\ \E i \in Events : /\ MatchEvent(i) /\ trace[i].rule = ri
                         /\ "\\0" \in Written(i)
    /\ \E i \in Events : /\ ActionEvent(i) /\ "data_file" \in Written(i)
    /\ {"\\0", "data_file", "rule_name"} \subseteq DOMAIN msg.data

\* C14: plumb download returns True or False, never an exception, whether
\* the network or the storing of the body fails; and it binds filename
\* only when it returns True.
DownloadFailureIsFalse ==
    \A i \in Events :
        (ActionEvent(i) /\ ActionLineOf(i).verb = "download") =>
        /\ trace[i].res \in {"True", "False"}
        /\ trace[i].res # "True" => trace[i].post = trace[i].pre

ActionBindingsVisible ==
    \A i \in Events : ActionEvent(i) =>
        /\ (i > 1 /\ ActionEvent(i - 1)) => trace[i].pre = trace[i - 1].post
        /\ (ActionLineOf(i).verb = "save" /\ trace[i].res = "True") =>
              /\ "data_file" \in DOMAIN trace[i].post
              /\ \A j \in Events : j > i => "data_file" \in DOMAIN trace[j].pre
        /\ (ActionLineOf(i).verb = "download" /\ trace[i].res = "True") =>
              /\ "filename" \in DOMAIN trace[i].post
              /\ \A j \in Events : j > i => "filename" \in DOMAIN trace[j].pre

\* save, then download {data_file}, then run c {filename}: both later
\* actions resolved the variable bound before them
ActionBindingsWitness ==
    /\ pc = "done"
    /\ \E i \in Events :
          /\ ActionEvent(i) /\ ActionLineOf(i).verb = "save"
          /\ i + 2 \in Events
          /\ ActionLineOf(i + 1).verb = "download"
          /\ trace[i + 1].res = "True"
          /\ ActionLineOf(i + 2).verb = "run"
          /\ trace[i + 2].res = "True"

\* C20: whenever an action of a rule is executed rule_name is bound to the
\* name of that rule; rule_name is not bound when a match clause is
\* evaluated, nor at any point before a rule has fully matched.
RuleNameOnFullMatch ==
    /\ \A i \in Events :
          /\ ActionEvent(i) =>
                /\ "rule_name" \in DOMAIN trace[i].pre
                /\ trace[i].pre["rule_name"] = rules[trace[i].rule].name
          /\ MatchEvent(i) => "rule_name" \notin DOMAIN trace[i].pre
    /\ pc \in {"for", "match", "revert"} => "rule_name" \notin DOMAIN msg.data

\* the first rule failed, the second matched, and its notify {rule_name}
\* was executed with the name of the second rule
RuleNameWitness ==
    /\ pc = "done"
    /\ ri = 2
    /\ \E i \in Events :
          /\ ActionEvent(i)
          /\ ActionLineOf(i).verb = "notify"
          /\ trace[i].res = "True"
          /\ trace[i].pre["rule_name"] = <<"r", "2">>

-----------------------------------------------------------------------------
(* Properties of ElasticDict *)

\* C8: revert round trip.  After any sequence of writes, reverse() gives
\* back exactly the mapping that was there before the first of the writes
\* and leaves the changelog empty.
RevertRoundTrip ==
    /\ Reverse(msg).data = before
    /\ Reverse(msg).changelog = <<>>

\* a new key was written twice, an old key was overwritten, and the dict
\* was then reversed
RevertWitness ==
    /\ Len(trace) = 4
    /\ trace[1].op = "set" /\ trace[1].key = "spam"
    /\ "spam" \notin DOMAIN before
    /\ trace[2].op = "set" /\ trace[2].key = "spam"
    /\ trace[3].op = "set" /\ trace[3].key = "tea"
    /\ "tea" \in DOMAIN before
    /\ trace[4].op = "reverse"
    /\ msg.data = before

-----------------------------------------------------------------------------
(* Properties of the parser *)

\* the text with every data <verb> line written as arg <verb> {data}
Desugar(text) ==
    [i \in DOMAIN text |->
        IF ClauseLine(text[i]) /\ text[i][1] = "data"
        THEN <<"arg", text[i][2], "{data}">> \o From(text[i], 3)
        ELSE text[i]]

\* C18: a rule file parses to what the file parses to in which every
\* data <verb> <patterns> line is written arg <verb> {data} <patterns>,
\* patterns on continuation lines included.
DataSugar ==
    \A i \in 1..Len(trace) :
        pc = "done" /\ "text" \in DOMAIN trace[i] =>
            trace[i].res = parse_rules_string(Desugar(trace[i].text))

\* a data line with a continuation line was parsed to an arg clause with
\* the patterns of both lines
DataSugarWitness ==
    /\ pc = "done"
    /\ outcome = "parsed"
    /\ Len(trace) = 1
    /\ "text" \in DOMAIN trace[1]
    /\ trace[1].text[3] = <<"data", "matches", "foo", "bar">>
    /\ trace[1].text[4] = <<"bar", "baz">>
    /\ rules[1][2][2] = << <<"arg", "matches", "{data}",
                             <<"foo", "bar", "bar", "baz">> >> >>

====
